---- MODULE Spec2Model ----
(***************************************************************************)
(* Handle-based signature layer of wasi-crypto-preview: the EdDSA family   *)
(* (implementation/src/eddsa.rs) and the EC-DSA family (src/ecdsa.rs).     *)
(* Key pairs own a PKCS8 byte vector that Drop zeroizes and an Arc to the  *)
(* provider's parsed key; signing and verification states own a mutex      *)
(* protected input vector.  The handle registry (handles.rs), the error    *)
(* enumeration (error.rs) and the provider (ring) are not part of the two  *)
(* files; they are modelled from the specification's contracts.            *)
(***************************************************************************)
EXTENDS Integers, Sequences, FiniteSets, TLC

VARIABLES
    reg,        \* registry: live handle -> registered entry
    minted,     \* number of handles the registry has issued so far
    objs,       \* every key-pair object ever constructed (memory kept after drop)
    ringKeys,   \* provider-side parsed keys behind Arc: scheme, key, strong count
    rng,        \* number of nonces drawn from the system randomness source
    issued,     \* history: per issued handle, its kind and whether close succeeded on it
    ret,        \* the last call made by the caller and what it returned
    callers,    \* concurrent callers: where each is inside the call it is making
    held        \* the mutexes that are locked, each with the caller holding it

(* What a call made by the one sequential caller leaves alone. *)
threads == <<callers, held>>

vars == <<reg, minted, objs, ringKeys, rng, issued, ret, callers, held>>

-----------------------------------------------------------------------------
(* Bounds of the model *)

MaxHandles == 2
MaxBuf == 2
MaxRng == 2
MaxCalls == 2

(* Every key-pair object is built for a registration or for a state. *)
MaxObjs == MaxHandles

(* Keys the provider can hold: one per construction, and one that belongs *)
(* to somebody else.                                                      *)
ForeignKey == MaxObjs + 1
KeyIds == 1..ForeignKey
MsgBytes == {1, 2}

(* SignatureAlgorithm values the two files name *)
Algs == {"Ed25519", "ECDSA_P256_SHA256", "ECDSA_P384_SHA384"}
Families == {"EdDSA", "ECDSA"}
Encodings == {"PKCS8", "Raw"}

(* The builders a caller constructs: each family with an algorithm it *)
(* implements, and each with one it does not.                        *)
Builders ==
    {[family |-> "EdDSA", alg |-> "Ed25519"],
     [family |-> "EdDSA", alg |-> "ECDSA_P256_SHA256"],
     [family |-> "ECDSA", alg |-> "ECDSA_P256_SHA256"],
     [family |-> "ECDSA", alg |-> "ECDSA_P384_SHA384"],
     [family |-> "ECDSA", alg |-> "Ed25519"]}

(* The verification states a caller opens: each family with an algorithm *)
(* it implements, and the EdDSA family with one it does not.             *)
Verifiers ==
    {[family |-> "EdDSA", alg |-> "Ed25519"],
     [family |-> "EdDSA", alg |-> "ECDSA_P256_SHA256"],
     [family |-> "ECDSA", alg |-> "ECDSA_P256_SHA256"],
     [family |-> "ECDSA", alg |-> "ECDSA_P384_SHA384"]}

Supported ==
    {[family |-> "EdDSA", alg |-> "Ed25519"],
     [family |-> "ECDSA", alg |-> "ECDSA_P256_SHA256"],
     [family |-> "ECDSA", alg |-> "ECDSA_P384_SHA384"]}

Chunks == {<<>>, <<1>>, <<2>>, <<1, 2>>}

-----------------------------------------------------------------------------
(* Results and errors *)

Ok(x) == [ok |-> TRUE, v |-> x]
CryptoError(kind) == [ok |-> FALSE, t |-> "CryptoError", v |-> kind]
Anyhow(msg) == [ok |-> FALSE, t |-> "anyhow", v |-> msg]

IsOk(r) == r.ok
IsErr(r) == ~r.ok

(* The error kind of the specification's taxonomy that a returned error carries. *)
(* An untyped message error carries none.                                         *)
KindOf(r) ==
    IF r.ok THEN "none"
    ELSE IF r.t # "CryptoError" THEN "untyped"
    ELSE IF r.v = "NotAvailable" THEN "Unsupported"
    ELSE IF r.v = "RNGError" THEN "RNGFailure"
    ELSE r.v

-----------------------------------------------------------------------------
(* The primitive provider, as a black box with an ideal signature scheme *)

SchemeByte(scheme) ==
    IF scheme = "Ed25519" THEN 1
    ELSE IF scheme = "ECDSA_P256_SHA256" THEN 2
    ELSE 3

provider_generate_pkcs8(scheme, k) == <<SchemeByte(scheme), k>>

provider_from_pkcs8(scheme, bytes) ==
    IF Len(bytes) = 2 /\ bytes[1] = SchemeByte(scheme) /\ bytes[2] \in KeyIds
    THEN Ok([scheme |-> scheme, k |-> bytes[2]])
    ELSE [ok |-> FALSE, t |-> "ring", v |-> "KeyRejected"]

provider_public_key(parsed) == <<16 * SchemeByte(parsed.scheme) + parsed.k>>

provider_sign_ed25519(parsed, msg) == <<SchemeByte(parsed.scheme), parsed.k>> \o msg

provider_sign_ecdsa(parsed, nonce, msg) == <<SchemeByte(parsed.scheme), parsed.k, nonce>> \o msg

(* The nonce an EC-DSA signature was made with. *)
provider_nonce_of(sig) == sig[3]

provider_verify(scheme, raw, msg, sig) ==
    \E k \in KeyIds :
        /\ raw = provider_public_key([scheme |-> scheme, k |-> k])
        /\ IF scheme = "Ed25519"
           THEN sig = provider_sign_ed25519([scheme |-> scheme, k |-> k], msg)
           ELSE \E n \in 1..MaxRng : sig = provider_sign_ecdsa([scheme |-> scheme, k |-> k], n, msg)

-----------------------------------------------------------------------------
(* Byte vectors *)

to_vec(s) == [i \in 1..Len(s) |-> s[i]]

(* clear() in place of zeroize(): the length is reset, the bytes stay *)
zeroize_ClearOnly(v) == v

(* Vec<u8>::zeroize: every byte of the allocation is overwritten with zero. *)
zeroize(v) == [i \in 1..Len(v) |-> 0]

AllZero(v) == \A i \in 1..Len(v) : v[i] = 0

(* push of the first byte in place of the whole slice *)
extend_from_slice_FirstOnly(buf, s) == IF s = <<>> THEN buf ELSE Append(buf, Head(s))

RECURSIVE extend_from_slice(_, _)
extend_from_slice(buf, s) ==
    IF s = <<>> THEN buf
    ELSE extend_from_slice(Append(buf, Head(s)), Tail(s))

-----------------------------------------------------------------------------
(* Key pairs: construction *)

(* A constructed key pair before it is placed in memory: the algorithm tag, *)
(* the copied PKCS8 bytes and the provider's parsed key.                    *)
KeyPairValue(family, alg, pkcs8, parsed) ==
    [family |-> family, alg |-> alg, pkcs8 |-> to_vec(pkcs8), parsed |-> parsed]

EdDSA_from_pkcs8(alg, pkcs8) ==
    LET ring_kp == provider_from_pkcs8("Ed25519", pkcs8)
    IN  IF IsErr(ring_kp) THEN CryptoError("InvalidKey")
        ELSE Ok(KeyPairValue("EdDSA", alg, pkcs8, ring_kp.v))

EdDSA_generate(alg, rngOk, k) ==
    IF ~rngOk THEN CryptoError("RNGError")
    ELSE EdDSA_from_pkcs8(alg, provider_generate_pkcs8("Ed25519", k))

ring_alg_from_alg(alg) ==
    IF alg \in {"ECDSA_P256_SHA256", "ECDSA_P384_SHA384"} THEN Ok(alg)
    ELSE Anyhow("Unsupported signature system")

ECDSA_from_pkcs8(alg, pkcs8) ==
    LET ring_alg == ring_alg_from_alg(alg)
    IN  IF IsErr(ring_alg) THEN ring_alg
        ELSE LET ring_kp == provider_from_pkcs8(ring_alg.v, pkcs8)
             IN  IF IsErr(ring_kp) THEN Anyhow("Invalid key pair")
                 ELSE Ok(KeyPairValue("ECDSA", alg, pkcs8, ring_kp.v))

ECDSA_generate(alg, rngOk, k) ==
    LET ring_alg == ring_alg_from_alg(alg)
    IN  IF IsErr(ring_alg) THEN ring_alg
        ELSE IF ~rngOk THEN Anyhow("RNG error")
        ELSE ECDSA_from_pkcs8(alg, provider_generate_pkcs8(ring_alg.v, k))

KeyPair_generate(family, alg, rngOk, k) ==
    IF family = "EdDSA" THEN EdDSA_generate(alg, rngOk, k)
    ELSE ECDSA_generate(alg, rngOk, k)

EdDSA_import_check(encoding) ==
    IF encoding = "PKCS8" THEN Ok("PKCS8") ELSE CryptoError("NotAvailable")

ECDSA_import_check(encoding) ==
    IF encoding = "PKCS8" THEN Ok("PKCS8") ELSE Anyhow("Unsupported")

(* Builder::import up to the registration: the encoding check, then from_pkcs8 *)
KeyPair_import(family, alg, encoded, encoding) ==
    LET chk == IF family = "EdDSA" THEN EdDSA_import_check(encoding)
               ELSE ECDSA_import_check(encoding)
    IN  IF IsErr(chk) THEN chk
        ELSE IF family = "EdDSA" THEN EdDSA_from_pkcs8(alg, encoded)
        ELSE ECDSA_from_pkcs8(alg, encoded)

-----------------------------------------------------------------------------
(* Key pairs in memory: Arc, Clone, Drop *)

Arc_new(rk, parsed) == Append(rk, [scheme |-> parsed.scheme, k |-> parsed.k, strong |-> 1])

(* a copy of the pointer that takes no share of the ownership *)
Arc_clone_Borrow(rk, i) == rk

Arc_clone(rk, i) == [rk EXCEPT ![i].strong = @ + 1]

Arc_drop(rk, i) == [rk EXCEPT ![i].strong = @ - 1]

(* The object a constructed key pair becomes once it is stored. *)
KeyPairObject(kpv, ring_kp) ==
    [family |-> kpv.family, alg |-> kpv.alg, pkcs8 |-> kpv.pkcs8, ring_kp |-> ring_kp,
     dropped |-> FALSE, zeroized |-> 0]

(* #[derive(Clone)]: a new vector holding a copy of the bytes, the same Arc. *)
KeyPair_clone(kp) ==
    [family |-> kp.family, alg |-> kp.alg, pkcs8 |-> to_vec(kp.pkcs8), ring_kp |-> kp.ring_kp,
     dropped |-> FALSE, zeroized |-> 0]

(* a Drop that releases the vector without overwriting it *)
KeyPair_drop_NoZeroize(kp) == [kp EXCEPT !.dropped = TRUE]

(* impl Drop: self.pkcs8.zeroize() *)
KeyPair_drop(kp) ==
    [kp EXCEPT !.pkcs8 = zeroize(@), !.dropped = TRUE, !.zeroized = @ + 1]

(* an export that loses the last byte of the stored encoding *)
as_pkcs8_Truncated(kp) == Ok(SubSeq(kp.pkcs8, 1, Len(kp.pkcs8) - 1))

as_pkcs8(kp) == Ok(kp.pkcs8)

raw_public_key(kp) == provider_public_key(ringKeys[kp.ring_kp])

(* The parsed key an Arc points to; memory whose last Arc is gone holds no key. *)
Arc_deref(i) ==
    IF ringKeys[i].strong > 0
    THEN [scheme |-> ringKeys[i].scheme, k |-> ringKeys[i].k]
    ELSE [scheme |-> ringKeys[i].scheme, k |-> 0]

-----------------------------------------------------------------------------
(* Signing and verification states *)

(* from and fed are history: the handle the key pair was taken from, and *)
(* the concatenation of every update argument so far.                   *)
SignatureState_new(family, kp, from) ==
    [kind |-> "sign", family |-> family, kp |-> kp, input |-> <<>>, from |-> from,
     fed |-> <<>>]

from_raw(alg, raw) == Ok([alg |-> alg, raw |-> to_vec(raw)])

VerificationState_new(family, pk) ==
    [kind |-> "verify", family |-> family, pk |-> pk, input |-> <<>>, fed |-> <<>>]

(* an assignment in place of the append *)
update_Overwrite(st, input) == [st EXCEPT !.input = to_vec(input)]

(* an insertion at the front in place of the append *)
update_Prepend(st, input) == [st EXCEPT !.input = to_vec(input) \o @]

update(st, input) == [st EXCEPT !.input = extend_from_slice(@, input)]

(* a signature salted with the identity of the state's own key pair object *)
EdDSA_sign_Salted(st) ==
    Ok(provider_sign_ed25519(Arc_deref(objs[st.kp].ring_kp), st.input) \o <<st.kp>>)

EdDSA_sign(st) ==
    Ok(provider_sign_ed25519(Arc_deref(objs[st.kp].ring_kp), st.input))

(* a nonce drawn once and kept for every later signature *)
ECDSA_sign_KeptNonce(st, rngOk, nonce) ==
    IF ~rngOk THEN Anyhow("Unable to sign")
    ELSE Ok(provider_sign_ecdsa(Arc_deref(objs[st.kp].ring_kp), 1, st.input))

ECDSA_sign(st, rngOk, nonce) ==
    IF ~rngOk THEN Anyhow("Unable to sign")
    ELSE Ok(provider_sign_ecdsa(Arc_deref(objs[st.kp].ring_kp), nonce, st.input))

(* a verify that reports a signature made under another key as a bad key *)
EdDSA_verify_Leaky(st, signature) ==
    IF st.pk.alg # "Ed25519" THEN CryptoError("NotAvailable")
    ELSE IF \A k \in KeyIds :
                st.pk.raw = provider_public_key([scheme |-> "Ed25519", k |-> k])
                    => Len(signature) < 2 \/ signature[2] # k
         THEN CryptoError("InvalidKey")
    ELSE IF ~provider_verify("Ed25519", st.pk.raw, st.input, signature)
         THEN CryptoError("VerificationFailed")
    ELSE Ok("unit")

(* a verify that hands the key to the Ed25519 routine whatever its identifier *)
EdDSA_verify_AnyAlg(st, signature) ==
    IF ~provider_verify("Ed25519", st.pk.raw, st.input, signature)
    THEN CryptoError("VerificationFailed")
    ELSE Ok("unit")

EdDSA_verify(st, signature) ==
    IF st.pk.alg # "Ed25519" THEN CryptoError("NotAvailable")
    ELSE IF ~provider_verify("Ed25519", st.pk.raw, st.input, signature)
         THEN CryptoError("VerificationFailed")
    ELSE Ok("unit")

(* EC-DSA verification is not in ecdsa.rs: the specification's contract. *)
ECDSA_verify(st, signature) ==
    IF st.pk.alg \notin {"ECDSA_P256_SHA256", "ECDSA_P384_SHA384"} THEN CryptoError("NotAvailable")
    ELSE IF ~provider_verify(st.pk.alg, st.pk.raw, st.input, signature)
         THEN CryptoError("VerificationFailed")
    ELSE Ok("unit")

sign(st, rngOk, nonce) ==
    IF st.family = "EdDSA" THEN EdDSA_sign(st) ELSE ECDSA_sign(st, rngOk, nonce)

verify(st, signature) ==
    IF st.family = "EdDSA" THEN EdDSA_verify(st, signature) ELSE ECDSA_verify(st, signature)

-----------------------------------------------------------------------------
(* The handle registry, from the specification's contract *)

(* a counter read without the increment: the last handle is minted again *)
FreshHandle_Repeat == IF minted = 0 THEN 1 ELSE minted

FreshHandle == minted + 1

registry_register(r, h, entry) ==
    [x \in (DOMAIN r) \cup {h} |-> IF x = h THEN entry ELSE r[x]]

registry_get(h, kinds) ==
    IF h \in DOMAIN reg /\ reg[h].kind \in kinds THEN Ok(reg[h])
    ELSE CryptoError("InvalidHandle")

(* close that forgets to remove the entry *)
registry_close_Silent(r, h) == r

registry_close(r, h) == [x \in (DOMAIN r) \ {h} |-> r[x]]

RegisterFailed == [ok |-> FALSE, t |-> "registry", v |-> "RegisterFailed"]

-----------------------------------------------------------------------------
(* What the caller last did, and the handles it has been given *)

Issued == 1..Len(issued)

WasClosed(h) == h \in Issued /\ issued[h].closed

HandlesOf(kinds) == {h \in Issued : issued[h].kind \in kinds}

Ret(op, h, a, res) == [op |-> op, h |-> h, stale |-> WasClosed(h), a |-> a, res |-> res]

NoArgs == [x |-> 0]

(* The callers that make calls at the same time as each other. *)
Callers == {1, 2}

NoOutput == [op |-> "none", msg |-> <<>>, res |-> Ok("none")]

(* A caller between calls. log and out are history: the arguments of the *)
(* update calls that have returned to it, in order, and the bytes the    *)
(* provider was given in its last sign or verify with what that returned *)
(* obj is the key pair object a registry call has in hand, res what the  *)
(* last registry call returned.                                          *)
NewCaller ==
    [pc |-> "idle", op |-> "none", h |-> 0, arg |-> <<>>, rest |-> <<>>, calls |-> 0,
     log |-> <<>>, out |-> NoOutput, obj |-> 0, res |-> Ok("none")]

Init ==
    /\ callers = [t \in Callers |-> NewCaller]
    /\ held = {}
    /\ reg = << >>
    /\ minted = 0
    /\ objs = << >>
    /\ ringKeys = << >>
    /\ rng = 0
    /\ issued = << >>
    /\ ret = Ret("none", 0, NoArgs, Ok("unit"))

Issue(kind) == Append(issued, [kind |-> kind, closed |-> FALSE])

(* Store a constructed key pair and register it; a refused registration *)
(* drops the key pair that was moved into the call.                     *)
Build(op, a, r, regOk) ==
    IF IsErr(r)
    THEN /\ ret' = Ret(op, 0, a, r)
         /\ UNCHANGED <<reg, minted, objs, ringKeys, rng, issued, threads>>
    ELSE /\ Len(objs) < MaxObjs
         /\ LET rk == Arc_new(ringKeys, r.v.parsed)
                kp == KeyPairObject(r.v, Len(rk))
            IN  IF regOk
                THEN /\ Cardinality(HandlesOf({"keypair", "sign"})) < MaxHandles
                     /\ reg' = registry_register(reg, FreshHandle,
                                   [kind |-> "keypair", kp |-> Len(objs) + 1])
                     /\ minted' = minted + 1
                     /\ issued' = Issue("keypair")
                     /\ objs' = Append(objs, kp)
                     /\ ringKeys' = rk
                     /\ ret' = Ret(op, 0, a, Ok(FreshHandle))
                     /\ UNCHANGED <<rng, threads>>
                ELSE /\ objs' = Append(objs, KeyPair_drop(kp))
                     /\ ringKeys' = Arc_drop(rk, Len(rk))
                     /\ ret' = Ret(op, 0, a, RegisterFailed)
                     /\ UNCHANGED <<reg, minted, rng, issued, threads>>

(* The system randomness source yields a key no earlier call has produced. *)
FreshKey == Len(ringKeys) + 1

Generate(b, rngOk, regOk) ==
    LET r == KeyPair_generate(b.family, b.alg, rngOk, FreshKey)
    IN  Build("generate", [family |-> b.family, alg |-> b.alg, rngOk |-> rngOk,
                           refused |-> IsOk(r) /\ ~regOk],
              r, regOk)

(* Encoded inputs a caller may present: the bytes just exported, or bytes *)
(* that no scheme accepts.                                                *)
Malformed == <<9>>

ImportInputs ==
    {[bytes |-> Malformed, src |-> 0]}
    \cup (IF ret.op = "export" /\ IsOk(ret.res)
          THEN {[bytes |-> ret.res.v, src |-> ret.h]} ELSE {})

Import(b, in, encoding, regOk) ==
    LET r == KeyPair_import(b.family, b.alg, in.bytes, encoding)
    IN  Build("import", [family |-> b.family, alg |-> b.alg, encoded |-> in.bytes,
                         src |-> in.src, encoding |-> encoding,
                         refused |-> IsOk(r) /\ ~regOk],
              r, regOk)

Export(h) ==
    LET g == registry_get(h, {"keypair"})
    IN  /\ ret' = Ret("export", h, NoArgs, IF IsErr(g) THEN g ELSE as_pkcs8(objs[g.v.kp]))
        /\ UNCHANGED <<reg, minted, objs, ringKeys, rng, issued, threads>>

PublicKeyOf(h) ==
    LET g == registry_get(h, {"keypair"})
    IN  /\ ret' = Ret("public_key", h, NoArgs,
                      IF IsErr(g) THEN g ELSE Ok(raw_public_key(objs[g.v.kp])))
        /\ UNCHANGED <<reg, minted, objs, ringKeys, rng, issued, threads>>

(* Open a signing state: the state owns a clone of the registered key pair. *)
OpenSign(h) ==
    LET g == registry_get(h, {"keypair"})
    IN  IF IsErr(g)
        THEN /\ ret' = Ret("open_sign", h, NoArgs, g)
             /\ UNCHANGED <<reg, minted, objs, ringKeys, rng, issued, threads>>
        ELSE /\ Cardinality(HandlesOf({"sign"})) < MaxHandles
             /\ LET kp == KeyPair_clone(objs[g.v.kp])
                IN  /\ objs' = Append(objs, kp)
                    /\ ringKeys' = Arc_clone(ringKeys, kp.ring_kp)
                    /\ reg' = registry_register(reg, FreshHandle,
                                  SignatureState_new(kp.family, Len(objs) + 1, h))
             /\ minted' = minted + 1
             /\ issued' = Issue("sign")
             /\ ret' = Ret("open_sign", h, NoArgs, Ok(FreshHandle))
             /\ UNCHANGED <<rng, threads>>

(* Raw public keys a caller may present: the one just read from a key pair, *)
(* or the key of somebody else.                                             *)
ForeignRaw == provider_public_key([scheme |-> "Ed25519", k |-> ForeignKey])

RawInputs ==
    IF ret.op = "public_key" /\ IsOk(ret.res) THEN {ret.res.v, ForeignRaw} ELSE {}

OpenVerify(b, raw) ==
    /\ LET pk == from_raw(b.alg, raw)
       IN  reg' = registry_register(reg, FreshHandle, VerificationState_new(b.family, pk.v))
    /\ minted' = minted + 1
    /\ issued' = Issue("verify")
    /\ ret' = Ret("open_verify", 0, [family |-> b.family, alg |-> b.alg, raw |-> raw],
                  Ok(FreshHandle))
    /\ UNCHANGED <<objs, ringKeys, rng, threads>>

RECURSIVE SumLen(_)
SumLen(hs) ==
    IF hs = {} THEN 0
    ELSE LET h == CHOOSE x \in hs : TRUE
         IN  Len(reg[h].input) + SumLen(hs \ {h})

(* Bytes held in the input vectors of all live states. *)
Buffered == SumLen({h \in DOMAIN reg : reg[h].kind \in {"sign", "verify"}})

(* History: the call before this one was a finalize or verify that returned *)
(* a result on the same state.                                              *)
AfterResult(h) == ret.h = h /\ ret.op \in {"finalize", "verify"} /\ ~ret.stale

(* The states that would see the bytes if the buffer lived in the key pair *)
(* the state was opened from rather than in the state.                     *)
SharesKeyPair(x, h) ==
    x = h \/ (reg[x].kind = "sign" /\ reg[h].kind = "sign" /\ reg[x].from = reg[h].from)

(* one buffer for all the signing states of a key pair *)
Update_SharedBuffer(h, input) ==
    LET g == registry_get(h, {"sign", "verify"})
    IN  IF IsErr(g)
        THEN /\ ret' = Ret("update", h, [input |-> input, before |-> <<>>,
                                         reopened |-> FALSE], g)
             /\ UNCHANGED <<reg, minted, objs, ringKeys, rng, issued, threads>>
        ELSE /\ Buffered + Len(input) <= MaxBuf
             /\ reg' = [x \in DOMAIN reg |->
                           IF SharesKeyPair(x, h)
                           THEN [update(reg[x], input) EXCEPT !.fed = @ \o input]
                           ELSE reg[x]]
             /\ ret' = Ret("update", h, [input |-> input, before |-> g.v.input,
                                         reopened |-> AfterResult(h)], Ok("unit"))
             /\ UNCHANGED <<minted, objs, ringKeys, rng, issued, threads>>

Update(h, input) ==
    LET g == registry_get(h, {"sign", "verify"})
    IN  IF IsErr(g)
        THEN /\ ret' = Ret("update", h, [input |-> input, before |-> <<>>,
                                         reopened |-> FALSE], g)
             /\ UNCHANGED <<reg, minted, objs, ringKeys, rng, issued, threads>>
        ELSE /\ Buffered + Len(input) <= MaxBuf
             /\ reg' = [reg EXCEPT ![h] = [update(g.v, input) EXCEPT !.fed = @ \o input]]
             /\ ret' = Ret("update", h, [input |-> input, before |-> g.v.input,
                                         reopened |-> AfterResult(h)], Ok("unit"))
             /\ UNCHANGED <<minted, objs, ringKeys, rng, issued, threads>>

(* History: the state on which the call before this one was a finalize that *)
(* returned a signature, if it was one.                                      *)
PrevFinalize == IF ret.op = "finalize" /\ IsOk(ret.res) THEN ret.h ELSE 0

Finalize(h, rngOk) ==
    LET g == registry_get(h, {"sign"})
    IN  IF IsErr(g)
        THEN /\ ret' = Ret("finalize", h, [rngOk |-> TRUE, nonce |-> 0, prev |-> 0], g)
             /\ UNCHANGED <<reg, minted, objs, ringKeys, rng, issued, threads>>
        ELSE IF g.v.family = "EdDSA"
        THEN /\ ret' = Ret("finalize", h, [rngOk |-> TRUE, nonce |-> 0, prev |-> PrevFinalize],
                           sign(g.v, TRUE, 0))
             /\ UNCHANGED <<reg, minted, objs, ringKeys, rng, issued, threads>>
        ELSE /\ rng < MaxRng
             /\ rng' = IF rngOk THEN rng + 1 ELSE rng
             /\ ret' = Ret("finalize", h, [rngOk |-> rngOk, nonce |-> IF rngOk THEN rng + 1 ELSE 0,
                                           prev |-> PrevFinalize],
                           sign(g.v, rngOk, rng + 1))
             /\ UNCHANGED <<reg, minted, objs, ringKeys, issued, threads>>

FlipBit(b) == IF b % 2 = 0 THEN b + 1 ELSE b - 1

FlipAt(sig, i) == [sig EXCEPT ![i] = FlipBit(@)]

NoSignature == [sig |-> <<0>>, signer |-> 0, flipped |-> 0]

(* Candidate signatures: the one finalize just returned, each single-bit *)
(* corruption of it, or bytes that are no signature.                     *)
Candidates ==
    IF ret.op = "finalize" /\ IsOk(ret.res)
    THEN {[sig |-> ret.res.v, signer |-> ret.h, flipped |-> 0]}
         \cup {[sig |-> FlipAt(ret.res.v, i), signer |-> ret.h, flipped |-> i] :
                  i \in 1..Len(ret.res.v)}
    ELSE {NoSignature}

Verify(h, c) ==
    LET g == registry_get(h, {"verify"})
    IN  /\ ret' = Ret("verify", h, c,
                      IF IsErr(g) THEN g ELSE verify(g.v, c.sig))
        /\ UNCHANGED <<reg, minted, objs, ringKeys, rng, issued, threads>>

(* close: the registry gives up its entry; a key pair it owned, or the key *)
(* pair owned by a signing state, is dropped with it.                      *)
Close(h) ==
    LET g == registry_get(h, {"keypair", "sign", "verify"})
    IN  IF IsErr(g)
        THEN /\ ret' = Ret("close", h, [kp |-> 0], g)
             /\ UNCHANGED <<reg, minted, objs, ringKeys, rng, issued, threads>>
        ELSE /\ reg' = registry_close(reg, h)
             /\ issued' = [issued EXCEPT ![h].closed = TRUE]
             /\ IF g.v.kind = "verify"
                THEN UNCHANGED <<objs, ringKeys>>
                ELSE /\ objs' = [objs EXCEPT ![g.v.kp] = KeyPair_drop(@)]
                     /\ ringKeys' = Arc_drop(ringKeys, objs[g.v.kp].ring_kp)
             /\ ret' = Ret("close", h, [kp |-> IF g.v.kind = "verify" THEN 0 ELSE g.v.kp],
                           Ok("unit"))
             /\ UNCHANGED <<minted, rng, threads>>

-----------------------------------------------------------------------------
(* Concurrent callers on one state: the steps of update, sign and verify *)
(* around the mutex of the state's input vector.                         *)

(* a lock that is granted while another caller holds it *)
try_lock_Barging(m, h) == TRUE

(* Mutex::lock returns only when no caller holds the mutex of state h. *)
try_lock(m, h) == \A t \in Callers : <<h, t>> \notin m

(* a guard that is dropped as soon as it is made *)
MutexGuard_new_Dropped(m, h, t) == m

(* The guard lock() returns: caller t holds the mutex until the guard is dropped. *)
MutexGuard_new(m, h, t) == m \cup {<<h, t>>}

MutexGuard_drop(m, h, t) == m \ {<<h, t>>}

(* The signature a concurrent verify is asked about: somebody else's *)
(* signature over the two bytes.                                     *)
ThreadCandidate == provider_sign_ed25519([scheme |-> "Ed25519", k |-> ForeignKey], <<1, 2>>)

(* The slices concurrent callers append: one byte, and two bytes that an *)
(* append between them would split.                                     *)
Slices == {<<1>>, <<1, 2>>}

StateOps(h) == IF reg[h].kind = "sign" THEN {"update", "sign"} ELSE {"update", "verify"}

(* A caller enters update(arg), sign() or verify(signature) on state h. *)
T_Call(t, h, op, arg) ==
    /\ callers[t].pc = "idle"
    /\ callers[t].calls < MaxCalls
    /\ IsOk(registry_get(h, {"sign", "verify"}))
    /\ op \in StateOps(h)
    /\ op # "update" => arg = <<>>
    /\ callers' = [callers EXCEPT ![t].pc = "lock", ![t].op = op, ![t].h = h,
                                  ![t].arg = arg, ![t].rest = arg, ![t].calls = @ + 1]
    /\ UNCHANGED <<reg, minted, objs, ringKeys, rng, issued, ret, held>>

(* self.input.lock() *)
T_Lock(t) ==
    /\ callers[t].pc = "lock"
    /\ try_lock(held, callers[t].h)
    /\ held' = MutexGuard_new(held, callers[t].h, t)
    /\ callers' = [callers EXCEPT ![t].pc = IF callers[t].op = "update" THEN "extend"
                                            ELSE "provider"]
    /\ UNCHANGED <<reg, minted, objs, ringKeys, rng, issued, ret>>

(* extend_from_slice, one byte of the slice at a time *)
T_Extend(t) ==
    /\ callers[t].pc = "extend"
    /\ callers[t].rest # <<>>
    /\ reg' = [reg EXCEPT ![callers[t].h].input =
                              extend_from_slice(@, <<Head(callers[t].rest)>>)]
    /\ callers' = [callers EXCEPT ![t].rest = Tail(@)]
    /\ UNCHANGED <<minted, objs, ringKeys, rng, issued, ret, held>>

(* The provider call of sign or verify on the bytes the vector holds now. *)
T_Provider(t, rngOk) ==
    /\ callers[t].pc = "provider"
    /\ LET st == reg[callers[t].h]
           draws == callers[t].op = "sign" /\ st.family = "ECDSA"
       IN  /\ draws => rng < MaxRng
           /\ ~draws => rngOk
           /\ rng' = IF draws /\ rngOk THEN rng + 1 ELSE rng
           /\ callers' = [callers EXCEPT
                   ![t].pc = "unlock",
                   ![t].out = [op |-> callers[t].op, msg |-> st.input,
                               res |-> IF callers[t].op = "sign"
                                       THEN sign(st, rngOk, rng + 1)
                                       ELSE verify(st, ThreadCandidate)]]
    /\ UNCHANGED <<reg, minted, objs, ringKeys, issued, ret, held>>

(* The guard goes out of scope and the call returns. *)
T_Unlock(t) ==
    /\ \/ callers[t].pc = "unlock"
       \/ callers[t].pc = "extend" /\ callers[t].rest = <<>>
    /\ held' = MutexGuard_drop(held, callers[t].h, t)
    /\ callers' = [callers EXCEPT
            ![t].pc = "idle",
            ![t].log = IF callers[t].op = "update" THEN Append(@, callers[t].arg) ELSE @]
    /\ UNCHANGED <<reg, minted, objs, ringKeys, rng, issued, ret>>

-----------------------------------------------------------------------------
(* Concurrent callers on the registry, from the specification's contract: *)
(* register, get and close each run under the registry's own lock; get    *)
(* hands the caller its own clone of the key pair, which the caller drops *)
(* when it is done with it.                                               *)

TheRegistry == 0

(* a registry lock that is granted while another caller is inside the registry *)
registry_lock_Barging(m) == TRUE

registry_lock(m) == \A t \in Callers : <<TheRegistry, t>> \notin m

(* A caller builds a key pair and enters register with it. *)
R_Register(t, b) ==
    /\ callers[t].pc = "idle"
    /\ callers[t].calls < MaxCalls
    /\ Len(ringKeys) < MaxHandles
    /\ LET r == KeyPair_generate(b.family, b.alg, TRUE, FreshKey)
           rk == Arc_new(ringKeys, r.v.parsed)
       IN  /\ IsOk(r)
           /\ ringKeys' = rk
           /\ objs' = Append(objs, KeyPairObject(r.v, Len(rk)))
    /\ callers' = [callers EXCEPT ![t].pc = "r_lock", ![t].op = "register", ![t].h = 0,
                                  ![t].obj = Len(objs) + 1, ![t].calls = @ + 1]
    /\ UNCHANGED <<reg, minted, rng, issued, ret, held>>

(* A caller enters get(h) or close(h). *)
R_Call(t, op, h) ==
    /\ callers[t].pc = "idle"
    /\ callers[t].calls < MaxCalls
    /\ op \in {"get", "close"}
    /\ callers' = [callers EXCEPT ![t].pc = "r_lock", ![t].op = op, ![t].h = h,
                                  ![t].obj = 0, ![t].calls = @ + 1]
    /\ UNCHANGED <<reg, minted, objs, ringKeys, rng, issued, ret, held>>

R_Lock(t) ==
    /\ callers[t].pc = "r_lock"
    /\ registry_lock(held)
    /\ held' = MutexGuard_new(held, TheRegistry, t)
    /\ callers' = [callers EXCEPT ![t].pc = "r_body"]
    /\ UNCHANGED <<reg, minted, objs, ringKeys, rng, issued, ret>>

(* register: the entry is stored under a handle minted for it. *)
R_Insert(t) ==
    /\ callers[t].pc = "r_body"
    /\ callers[t].op = "register"
    /\ reg' = registry_register(reg, FreshHandle, [kind |-> "keypair", kp |-> callers[t].obj])
    /\ minted' = minted + 1
    /\ issued' = Issue("keypair")
    /\ callers' = [callers EXCEPT ![t].pc = "r_unlock", ![t].obj = 0, ![t].h = FreshHandle,
                                  ![t].res = Ok(FreshHandle)]
    /\ UNCHANGED <<objs, ringKeys, rng, ret, held>>

(* get: the entry is looked up ... *)
R_Find(t) ==
    /\ callers[t].pc = "r_body"
    /\ callers[t].op = "get"
    /\ LET g == registry_get(callers[t].h, {"keypair"})
       IN  callers' = IF IsErr(g)
                      THEN [callers EXCEPT ![t].pc = "r_unlock", ![t].res = g]
                      ELSE [callers EXCEPT ![t].pc = "r_clone", ![t].obj = g.v.kp]
    /\ UNCHANGED <<reg, minted, objs, ringKeys, rng, issued, ret, held>>

(* ... and cloned for the caller. *)
R_Clone(t) ==
    /\ callers[t].pc = "r_clone"
    /\ LET kp == KeyPair_clone(objs[callers[t].obj])
       IN  /\ objs' = Append(objs, kp)
           /\ ringKeys' = Arc_clone(ringKeys, kp.ring_kp)
    /\ callers' = [callers EXCEPT ![t].pc = "r_unlock", ![t].obj = Len(objs) + 1,
                                  ![t].res = Ok("reference")]
    /\ UNCHANGED <<reg, minted, rng, issued, ret, held>>

(* close: the entry is removed ... *)
R_Remove(t) ==
    /\ callers[t].pc = "r_body"
    /\ callers[t].op = "close"
    /\ LET g == registry_get(callers[t].h, {"keypair"})
       IN  IF IsErr(g)
           THEN /\ callers' = [callers EXCEPT ![t].pc = "r_unlock", ![t].res = g]
                /\ UNCHANGED <<reg, issued>>
           ELSE /\ reg' = registry_close(reg, callers[t].h)
                /\ issued' = [issued EXCEPT ![callers[t].h].closed = TRUE]
                /\ callers' = [callers EXCEPT ![t].pc = "r_drop", ![t].obj = g.v.kp]
    /\ UNCHANGED <<minted, objs, ringKeys, rng, ret, held>>

(* ... and the key pair the registry owned is dropped. *)
R_Drop(t) ==
    /\ callers[t].pc = "r_drop"
    /\ objs' = [objs EXCEPT ![callers[t].obj] = KeyPair_drop(@)]
    /\ ringKeys' = Arc_drop(ringKeys, objs[callers[t].obj].ring_kp)
    /\ callers' = [callers EXCEPT ![t].pc = "r_unlock", ![t].obj = 0, ![t].res = Ok("unit")]
    /\ UNCHANGED <<reg, minted, rng, issued, ret, held>>

(* The registry call returns; a caller that got a reference now holds it. *)
R_Unlock(t) ==
    /\ callers[t].pc = "r_unlock"
    /\ held' = MutexGuard_drop(held, TheRegistry, t)
    /\ callers' = [callers EXCEPT
            ![t].pc = IF callers[t].op = "get" /\ IsOk(callers[t].res) THEN "holding"
                      ELSE "idle"]
    /\ UNCHANGED <<reg, minted, objs, ringKeys, rng, issued, ret>>

(* The caller is done with the reference: its clone is dropped. *)
R_Release(t) ==
    /\ callers[t].pc = "holding"
    /\ objs' = [objs EXCEPT ![callers[t].obj] = KeyPair_drop(@)]
    /\ ringKeys' = Arc_drop(ringKeys, objs[callers[t].obj].ring_kp)
    /\ callers' = [callers EXCEPT ![t].pc = "idle", ![t].obj = 0]
    /\ UNCHANGED <<reg, minted, rng, issued, ret, held>>

-----------------------------------------------------------------------------
(* Key and handle lifecycle: every builder, failing randomness, refused *)
(* registrations, malformed and re-imported encodings, signing states   *)
(* that own a clone of their key pair.                                  *)

(* Room for one more object and one more handle. *)
HasRoom == Len(objs) < MaxObjs /\ Cardinality(HandlesOf({"keypair", "sign"})) < MaxHandles

Next ==
    \/ \E b \in Builders, rngOk \in BOOLEAN, regOk \in BOOLEAN : Generate(b, rngOk, regOk)
    \/ \E b \in Builders, in \in ImportInputs, encoding \in Encodings, regOk \in BOOLEAN :
           Import(b, in, encoding, regOk)
    \/ \E h \in HandlesOf({"keypair"}) : Export(h)
    \/ \E h \in HandlesOf({"keypair"}) : PublicKeyOf(h)
    \/ \E h \in HandlesOf({"keypair"}) : HasRoom /\ OpenSign(h)
    \/ \E h \in Issued : Close(h)

Spec == Init /\ [][Next]_vars

(* Streaming: one key pair of an implemented algorithm, one signing state *)
(* opened from it and one verification state, fed every chunk; the        *)
(* signature is carried from finalize to verify intact or corrupted.      *)

NextStream ==
    \/ \E b \in Supported : HandlesOf({"keypair"}) = {} /\ Generate(b, TRUE, TRUE)
    \/ \E h \in HandlesOf({"keypair"}) : Export(h)
    \/ \E h \in HandlesOf({"keypair"}) : PublicKeyOf(h)
    \/ \E h \in HandlesOf({"keypair"}) : HandlesOf({"sign"}) = {} /\ OpenSign(h)
    \/ \E b \in Verifiers, raw \in RawInputs : HandlesOf({"verify"}) = {} /\ OpenVerify(b, raw)
    \/ \E h \in HandlesOf({"sign", "verify"}), input \in Chunks : Update(h, input)
    \/ \E h \in HandlesOf({"sign"}), rngOk \in BOOLEAN : Finalize(h, rngOk)
    \/ \E h \in HandlesOf({"verify"}), c \in Candidates : Verify(h, c)
    \/ \E h \in Issued : Close(h)

SpecStream == Init /\ [][NextStream]_vars

(* States of one key pair: two signing states opened from the same key *)
(* pair and a verification state on somebody else's key, each fed,      *)
(* finalized and verified in any order.                                 *)

NextStates ==
    \/ \E b \in Supported : HandlesOf({"keypair"}) = {} /\ Generate(b, TRUE, TRUE)
    \/ \E h \in HandlesOf({"keypair"}) : Cardinality(HandlesOf({"sign"})) < 2 /\ OpenSign(h)
    \/ \E b \in Verifiers :
           HandlesOf({"verify"}) = {} /\ HandlesOf({"keypair"}) # {} /\ OpenVerify(b, ForeignRaw)
    \/ \E h \in HandlesOf({"sign", "verify"}), input \in Chunks : Update(h, input)
    \/ \E h \in HandlesOf({"sign"}), rngOk \in BOOLEAN : Finalize(h, rngOk)
    \/ \E h \in HandlesOf({"verify"}), c \in Candidates : Verify(h, c)

SpecStates == Init /\ [][NextStates]_vars

(* Concurrent callers: one key pair, one state (signing, or verification *)
(* on somebody else's key), and two callers that each make their calls  *)
(* on it at any moment.                                                 *)

NextThreads ==
    \/ \E b \in Supported : HandlesOf({"keypair"}) = {} /\ Generate(b, TRUE, TRUE)
    \/ \E h \in HandlesOf({"keypair"}) : HandlesOf({"sign", "verify"}) = {} /\ OpenSign(h)
    \/ \E b \in Supported :
           /\ HandlesOf({"sign", "verify"}) = {}
           /\ HandlesOf({"keypair"}) # {}
           /\ b.family = "EdDSA"
           /\ OpenVerify(b, ForeignRaw)
    \/ \E t \in Callers, h \in HandlesOf({"sign", "verify"}), input \in Slices :
           T_Call(t, h, "update", input)
    \/ \E t \in Callers, h \in HandlesOf({"sign", "verify"}), op \in {"sign", "verify"} :
           T_Call(t, h, op, <<>>)
    \/ \E t \in Callers : T_Lock(t)
    \/ \E t \in Callers : T_Extend(t)
    \/ \E t \in Callers, rngOk \in BOOLEAN : T_Provider(t, rngOk)
    \/ \E t \in Callers : T_Unlock(t)

SpecThreads == Init /\ [][NextThreads]_vars

(* Concurrent callers on the registry: two callers that register key pairs  *)
(* (one algorithm of each family), get them and close them at any moment.   *)

NextRegistry ==
    \/ \E t \in Callers, b \in Supported : b.alg # "ECDSA_P384_SHA384" /\ R_Register(t, b)
    \/ \E t \in Callers, op \in {"get", "close"}, h \in 1..MaxHandles : R_Call(t, op, h)
    \/ \E t \in Callers : R_Lock(t)
    \/ \E t \in Callers : R_Insert(t)
    \/ \E t \in Callers : R_Find(t)
    \/ \E t \in Callers : R_Clone(t)
    \/ \E t \in Callers : R_Remove(t)
    \/ \E t \in Callers : R_Drop(t)
    \/ \E t \in Callers : R_Unlock(t)
    \/ \E t \in Callers : R_Release(t)

SpecRegistry == Init /\ [][NextRegistry]_vars

-----------------------------------------------------------------------------
(* Properties *)

LiveOf(kinds) == {h \in DOMAIN reg : reg[h].kind \in kinds}

HandleOps == {"export", "public_key", "open_sign", "update", "finalize", "verify", "close"}

(* C1: once close(h) has succeeded, every later call that takes h (export,   *)
(* publicKeyOf, open state, update, finalize, verify) fails with             *)
(* InvalidHandle, and so does a second close(h).                             *)
C1_ClosedHandleFails ==
    (ret.op \in HandleOps /\ ret.stale) => KindOf(ret.res) = "InvalidHandle"

C1_Witness ==
    /\ ret.op = "close"
    /\ ret.stale
    /\ ret.res = CryptoError("InvalidHandle")
    /\ \E h \in Issued : issued[h].kind = "sign" /\ issued[h].closed

(* The key a signing state signs with, read from the provider's memory. *)
KeyOfState(st) ==
    [scheme |-> ringKeys[objs[st.kp].ring_kp].scheme, k |-> ringKeys[objs[st.kp].ring_kp].k]

ParentClosed(h) == issued[reg[h].from].closed

(* C2: a signing state outlives the handle of the key pair it was opened     *)
(* from: after that handle is closed the state's own key pair is neither     *)
(* dropped nor zeroed, update succeeds, and finalize succeeds (given         *)
(* randomness, for EC-DSA) and signs the buffer with the original key.       *)
C2_StateOutlivesKeyPairHandle ==
    /\ \A h \in LiveOf({"sign"}) :
           ParentClosed(h) =>
               /\ ~objs[reg[h].kp].dropped
               /\ ~AllZero(objs[reg[h].kp].pkcs8)
               /\ ringKeys[objs[reg[h].kp].ring_kp].strong > 0
    /\ (ret.op \in {"update", "finalize"} /\ ret.h \in LiveOf({"sign"}) /\ ParentClosed(ret.h)) =>
           /\ ret.op = "update" => IsOk(ret.res)
           /\ (ret.op = "finalize" /\ ret.a.rngOk) =>
                  /\ IsOk(ret.res)
                  /\ ret.res.v =
                         IF reg[ret.h].family = "EdDSA"
                         THEN provider_sign_ed25519(KeyOfState(reg[ret.h]), reg[ret.h].input)
                         ELSE provider_sign_ecdsa(KeyOfState(reg[ret.h]), ret.a.nonce,
                                                  reg[ret.h].input)

C2_Witness ==
    /\ ret.op = "finalize"
    /\ ret.h \in LiveOf({"sign"})
    /\ ParentClosed(ret.h)
    /\ IsOk(ret.res)
    /\ reg[ret.h].input # <<>>

Owned(o) == \E h \in LiveOf({"keypair", "sign"}) : reg[h].kp = o

(* C3: a key pair object that close has released holds only zero bytes when  *)
(* close returns, the zeroing has run exactly once for it, and in no state   *)
(* does an object without an owner hold non-zero private bytes.              *)
C3_ZeroedOnceOnClose ==
    /\ \A o \in 1..Len(objs) :
           /\ objs[o].dropped => AllZero(objs[o].pkcs8) /\ objs[o].zeroized = 1
           /\ ~objs[o].dropped => objs[o].zeroized = 0 /\ ~AllZero(objs[o].pkcs8)
           /\ Owned(o) <=> ~objs[o].dropped
    /\ (ret.op = "close" /\ IsOk(ret.res) /\ ret.a.kp # 0) =>
           /\ objs[ret.a.kp].dropped
           /\ AllZero(objs[ret.a.kp].pkcs8)

C3_Witness ==
    /\ ret.op = "close"
    /\ IsOk(ret.res)
    /\ ret.a.kp # 0
    /\ issued[ret.h].kind = "keypair"
    /\ AllZero(objs[ret.a.kp].pkcs8)
    /\ \E h \in LiveOf({"sign"}) : reg[h].from = ret.h

BuildFailed == ret.op \in {"generate", "import"} /\ IsErr(ret.res)

(* C4: a generate or import that fails (randomness, encoding kind, rejected  *)
(* bytes, refused registration) leaves the registry with exactly the handles *)
(* it had, and every key pair object the call built is dropped and zeroed.   *)
C4_FailedBuildLeavesNothing ==
    [][BuildFailed' =>
          /\ reg' = reg
          /\ minted' = minted
          /\ \A o \in 1..Len(objs') :
                 o > Len(objs) => objs'[o].dropped /\ AllZero(objs'[o].pkcs8)
          /\ \A o \in 1..Len(objs) : objs'[o] = objs[o]]_vars

C4_Witness ==
    /\ ret.op = "import"
    /\ ret.a.refused
    /\ IsErr(ret.res)
    /\ objs[Len(objs)].dropped
    /\ DOMAIN reg # {}

Registered == ret.op \in {"generate", "import", "open_sign", "open_verify"} /\ IsOk(ret.res)

(* C5: register returns a handle that is not live, adds exactly that handle  *)
(* and disturbs no other entry; no two live handles own the same object.     *)
C5_FreshHandles ==
    [][/\ Registered' =>
              /\ ret'.res.v \notin DOMAIN reg
              /\ DOMAIN reg' = (DOMAIN reg) \cup {ret'.res.v}
              /\ \A h \in DOMAIN reg : reg'[h] = reg[h]
       /\ \A h1, h2 \in LiveOf({"keypair", "sign"})' :
              h1 # h2 => reg'[h1].kp # reg'[h2].kp]_vars

C5_Witness ==
    /\ Registered
    /\ ret.res.v \in DOMAIN reg
    /\ \E h \in Issued : issued[h].closed
    /\ Cardinality(DOMAIN reg) = 1

(* The bytes the provider rejects for the builder's scheme. *)
ProviderRejects(family, alg, bytes) ==
    IsErr(provider_from_pkcs8(IF family = "EdDSA" THEN "Ed25519" ELSE alg, bytes))

(* C6: in both families import with an encoding kind other than PKCS8 fails  *)
(* with the kind Unsupported, and import of bytes the provider rejects under *)
(* PKCS8 fails with the kind InvalidKey.                                     *)
C6_ImportErrorKinds ==
    ret.op = "import" =>
        /\ ret.a.encoding # "PKCS8" => KindOf(ret.res) = "Unsupported"
        /\ (/\ ret.a.encoding = "PKCS8"
            /\ ret.a.family = "ECDSA" => IsOk(ring_alg_from_alg(ret.a.alg))
            /\ ProviderRejects(ret.a.family, ret.a.alg, ret.a.encoded))
               => KindOf(ret.res) = "InvalidKey"

(* The algorithms each family implements. *)
Implements(family, alg) == [family |-> family, alg |-> alg] \in Supported

(* A verify on the live state ret.h of a signature that finalize returned *)
(* on the live signing state ret.a.signer in the step before.             *)
VerifiedAfterFinalize ==
    /\ ret.op = "verify"
    /\ ret.h \in LiveOf({"verify"})
    /\ ret.a.signer \in LiveOf({"sign"})

SameKey(v, s) == v.pk.raw = raw_public_key(objs[s.kp])

(* C7: when the update arguments of a signing state and of a verification    *)
(* state on the same key's public key concatenate to the same message (the   *)
(* empty one included), verify accepts the signature finalize returned, for  *)
(* every implemented algorithm of both families.                             *)
C7_SignThenVerify ==
    VerifiedAfterFinalize =>
        LET v == reg[ret.h]
            s == reg[ret.a.signer]
        IN  (/\ ret.a.flipped = 0
             /\ v.family = s.family
             /\ v.pk.alg = objs[s.kp].alg
             /\ Implements(s.family, objs[s.kp].alg)
             /\ SameKey(v, s)
             /\ v.fed = s.fed) => ret.res = Ok("unit")

C7_Witness ==
    /\ VerifiedAfterFinalize
    /\ ret.res = Ok("unit")
    /\ reg[ret.h].family = "EdDSA"
    /\ reg[ret.h].fed = reg[ret.a.signer].fed
    /\ reg[ret.h].fed # <<>>

(* C8: verify on an EdDSA verification state of the implemented algorithm    *)
(* fails when the candidate signature, the accumulated message or the public *)
(* key differs from those the signature was made with, and the error is the  *)
(* one value VerificationFailed in all three cases.                          *)
C8_MismatchIsVerificationFailed ==
    (VerifiedAfterFinalize /\ reg[ret.h].family = "EdDSA" /\ reg[ret.h].pk.alg = "Ed25519") =>
        LET v == reg[ret.h]
            s == reg[ret.a.signer]
        IN  (ret.a.flipped # 0 \/ v.input # s.input \/ ~SameKey(v, s))
                => ret.res = CryptoError("VerificationFailed")

C8_Witness ==
    /\ VerifiedAfterFinalize
    /\ reg[ret.h].family = "EdDSA"
    /\ reg[ret.h].pk.alg = "Ed25519"
    /\ reg[ret.a.signer].family = "EdDSA"
    /\ ret.a.flipped = 0
    /\ reg[ret.h].input = reg[ret.a.signer].input
    /\ ~SameKey(reg[ret.h], reg[ret.a.signer])
    /\ ret.res = CryptoError("VerificationFailed")

(* An import of the bytes export just returned for the live key pair *)
(* ret.a.src, by a builder of that key pair's family and algorithm.  *)
ReImported ==
    /\ ret.op = "import"
    /\ ret.a.src \in LiveOf({"keypair"})
    /\ ret.a.encoding = "PKCS8"
    /\ ret.a.family = objs[reg[ret.a.src].kp].family
    /\ ret.a.alg = objs[reg[ret.a.src].kp].alg
    /\ ~ret.a.refused

(* C9: export returns the stored bytes verbatim, and importing them with the *)
(* same algorithm succeeds, registers a new handle, and gives a key pair     *)
(* whose raw public key equals the original's.                               *)
C9_ExportImportRoundTrip ==
    /\ (ret.op = "export" /\ ret.h \in LiveOf({"keypair"})) =>
           ret.res = Ok(objs[reg[ret.h].kp].pkcs8)
    /\ ReImported =>
           /\ IsOk(ret.res)
           /\ ret.res.v # ret.a.src
           /\ ret.res.v \in LiveOf({"keypair"})
           /\ ret.a.encoded = objs[reg[ret.a.src].kp].pkcs8
           /\ raw_public_key(objs[reg[ret.res.v].kp]) = raw_public_key(objs[reg[ret.a.src].kp])

C9_Witness ==
    /\ ReImported
    /\ IsOk(ret.res)
    /\ ret.a.family = "ECDSA"
    /\ reg[ret.res.v].kp # reg[ret.a.src].kp

TwoUpdates ==
    /\ ret.op = "update" /\ IsOk(ret.res)
    /\ ret'.op = "update" /\ IsOk(ret'.res)
    /\ ret'.h = ret.h

(* What finalize or verify returns is what the routine returns on the *)
(* concatenation of the update arguments.                             *)
ResultOfConcatenation ==
    /\ (ret.op = "finalize" /\ ret.h \in LiveOf({"sign"})) =>
           ret.res = sign([reg[ret.h] EXCEPT !.input = reg[ret.h].fed], ret.a.rngOk, ret.a.nonce)
    /\ (ret.op = "verify" /\ ret.h \in LiveOf({"verify"})) =>
           ret.res = verify([reg[ret.h] EXCEPT !.input = reg[ret.h].fed], ret.a.sig)

(* C10: update(a) followed by update(b) leaves the buffer that the single    *)
(* update(a+b) leaves, and finalize and verify return what they return on    *)
(* that buffer.                                                              *)
C10_UpdateConcatenates ==
    [][/\ TwoUpdates =>
              reg'[ret.h].input =
                  update([input |-> ret.a.before], ret.a.input \o ret'.a.input).input
       /\ ResultOfConcatenation']_vars

C10_Witness ==
    /\ ret.op = "update"
    /\ IsOk(ret.res)
    /\ ret.a.before # <<>>
    /\ ret.a.input # <<>>
    /\ reg[ret.h].input = ret.a.before \o ret.a.input

(* The signature the provider returns for the key of signing state h over *)
(* the message msg.                                                       *)
SignatureOver(h, nonce, msg) ==
    IF reg[h].family = "EdDSA"
    THEN provider_sign_ed25519(KeyOfState(reg[h]), msg)
    ELSE provider_sign_ecdsa(KeyOfState(reg[h]), nonce, msg)

FinalizeSignsAllFed ==
    (ret.op = "finalize" /\ IsOk(ret.res)) =>
        ret.res.v = SignatureOver(ret.h, ret.a.nonce, reg[ret.h].fed)

(* C11: a state is never terminal: the buffer of every live state is the     *)
(* concatenation, in call order, of all its update arguments; finalize and   *)
(* verify leave every buffer as it was; an update that follows a finalize or *)
(* verify on the same state succeeds and appends; and a successful finalize  *)
(* returns the signature over exactly the update arguments so far.           *)
C11_NoTerminalState ==
    [][/\ \A h \in LiveOf({"sign", "verify"})' : reg'[h].input = reg'[h].fed
       /\ ret'.op \in {"finalize", "verify"} => reg' = reg
       /\ (ret'.op = "update" /\ ret'.a.reopened) =>
              /\ IsOk(ret'.res)
              /\ reg'[ret'.h].input = reg[ret'.h].input \o ret'.a.input
       /\ FinalizeSignsAllFed']_vars

C11_Witness ==
    /\ ret.op = "update"
    /\ ret.a.reopened
    /\ IsOk(ret.res)
    /\ reg[ret.h].kind = "sign"
    /\ ret.a.before # <<>>
    /\ ret.a.input # <<>>

Ed25519State(h) ==
    /\ h \in LiveOf({"sign"})
    /\ reg[h].family = "EdDSA"
    /\ objs[reg[h].kp].alg = "Ed25519"

(* A finalize that returned a signature right after a finalize that returned *)
(* one on a state of the same key pair holding the same bytes.               *)
RepeatedFinalize ==
    /\ ret.op = "finalize" /\ IsOk(ret.res)
    /\ ret.a.prev \in LiveOf({"sign"})
    /\ ret.h \in LiveOf({"sign"})
    /\ reg[ret.a.prev].from = reg[ret.h].from
    /\ reg[ret.a.prev].input = reg[ret.h].input

(* C12: two finalize calls over identical buffers with the same Ed25519 key  *)
(* pair, on one state or on two states opened from that key pair, return the *)
(* same signature bytes.                                                     *)
C12_Ed25519Deterministic ==
    [][(RepeatedFinalize' /\ Ed25519State(ret.h)') => ret'.res.v = ret.res.v]_vars

C12_Witness ==
    /\ RepeatedFinalize
    /\ Ed25519State(ret.h)
    /\ ret.a.prev # ret.h
    /\ reg[ret.h].input # <<>>
    /\ ret.res.v = provider_sign_ed25519(KeyOfState(reg[ret.a.prev]), reg[ret.a.prev].input)

ECDSASigned ==
    /\ ret.op = "finalize" /\ IsOk(ret.res)
    /\ ret.h \in LiveOf({"sign"})
    /\ reg[ret.h].family = "ECDSA"

(* C13: every EC-DSA finalize that returns a signature draws one value from  *)
(* the randomness source and signs with it: the nonce in the signature is    *)
(* the value just drawn, which no earlier finalize has used, and a finalize  *)
(* that follows another returns different bytes even on an unchanged buffer. *)
C13_FreshNonceEveryFinalize ==
    [][ECDSASigned' =>
          /\ rng' = rng + 1
          /\ provider_nonce_of(ret'.res.v) = rng'
          /\ provider_nonce_of(ret'.res.v) \notin 1..rng
          /\ ret'.a.prev # 0 =>
                 /\ ret'.res.v # ret.res.v
                 /\ provider_nonce_of(ret'.res.v) # provider_nonce_of(ret.res.v)]_vars

C13_Witness ==
    /\ ECDSASigned
    /\ ret.a.prev = ret.h
    /\ reg[ret.h].input # <<>>
    /\ provider_nonce_of(ret.res.v) = rng
    /\ rng > 1

SixKinds ==
    {"InvalidHandle", "Unsupported", "InvalidKey", "RNGFailure", "SigningFailure",
     "VerificationFailed"}

(* C16: every error that generate, import, finalize or verify returns from   *)
(* the two families carries one of the six kinds; generate without           *)
(* randomness returns RNGFailure, and an EC-DSA finalize that fails returns  *)
(* RNGFailure or SigningFailure.                                             *)
C16_SixErrorKinds ==
    /\ (ret.op \in {"generate", "import"} /\ IsErr(ret.res) /\ ~ret.a.refused) =>
           KindOf(ret.res) \in SixKinds
    /\ (ret.op = "generate" /\ ~ret.a.rngOk /\ Implements(ret.a.family, ret.a.alg)) =>
           KindOf(ret.res) = "RNGFailure"
    /\ (ret.op \in {"finalize", "verify"} /\ IsErr(ret.res)) =>
           KindOf(ret.res) \in SixKinds
    /\ (ret.op = "finalize" /\ IsErr(ret.res) /\ ~ret.stale) =>
           KindOf(ret.res) \in {"RNGFailure", "SigningFailure"}

(* A verify on a live verification state whose public key names an *)
(* algorithm the state's family does not implement.                *)
VerifiedForeignAlg ==
    /\ ret.op = "verify"
    /\ ret.h \in LiveOf({"verify"})
    /\ ~Implements(reg[ret.h].family, reg[ret.h].pk.alg)

(* C17: verify on a state whose public key carries an algorithm identifier   *)
(* its family does not implement returns Unsupported, whatever the buffer    *)
(* holds and whatever the candidate signature is.                            *)
C17_ForeignAlgIsUnsupported ==
    VerifiedForeignAlg => KindOf(ret.res) = "Unsupported"

C17_Witness ==
    /\ VerifiedForeignAlg
    /\ ret.res = CryptoError("NotAvailable")
    /\ reg[ret.h].input # <<>>
    /\ ret.a.signer \in LiveOf({"sign"})
    /\ ret.a.flipped = 0
    /\ reg[ret.a.signer].family = "EdDSA"
    /\ SameKey(reg[ret.h], reg[ret.a.signer])
    /\ reg[ret.h].input = reg[ret.a.signer].input

(* C18: a builder given an identifier its family does not implement fails    *)
(* generate and import with Unsupported and registers nothing, so the        *)
(* identifier of every registered key pair names the scheme of its key.      *)
C18_DispatchByIdentifier ==
    /\ (ret.op \in {"generate", "import"} /\ ~Implements(ret.a.family, ret.a.alg)) =>
           KindOf(ret.res) = "Unsupported"
    /\ \A h \in LiveOf({"keypair"}) :
           /\ Implements(objs[reg[h].kp].family, objs[reg[h].kp].alg)
           /\ ringKeys[objs[reg[h].kp].ring_kp].scheme = objs[reg[h].kp].alg

(* C20: update, finalize and verify on one state leave every key pair        *)
(* object, the provider's keys, the set of live handles and every other      *)
(* registered state as they were; finalize and verify leave the called state *)
(* as it was too, and update changes only its buffer.                        *)
C20_FrameOfStateCalls ==
    [][ret'.op \in {"update", "finalize", "verify"} =>
          /\ objs' = objs
          /\ ringKeys' = ringKeys
          /\ DOMAIN reg' = DOMAIN reg
          /\ issued' = issued
          /\ \A h \in DOMAIN reg : h # ret'.h => reg'[h] = reg[h]
          /\ ret'.op # "update" => reg' = reg
          /\ (ret'.op = "update" /\ ret'.h \in DOMAIN reg) =>
                 reg'[ret'.h] = [reg[ret'.h] EXCEPT !.input = reg'[ret'.h].input,
                                                   !.fed = reg'[ret'.h].fed]]_vars

C20_Witness ==
    /\ ret.op = "update" /\ IsOk(ret.res)
    /\ ret.a.input # <<>>
    /\ reg[ret.h].kind = "sign"
    /\ LiveOf({"verify"}) # {}
    /\ \E h \in LiveOf({"sign"}) :
           /\ h # ret.h
           /\ reg[h].from = reg[ret.h].from
           /\ reg[h].input # <<>>
           /\ reg[h].input # reg[ret.h].input
    /\ \A o \in 1..Len(objs) : ~AllZero(objs[o].pkcs8)

IsPrefix(p, q) == Len(p) <= Len(q) /\ SubSeq(q, 1, Len(p)) = p

IsSuffix(p, q) == Len(p) <= Len(q) /\ SubSeq(q, Len(q) - Len(p) + 1, Len(q)) = p

(* buf is made of the slices of logs, each whole, those of one caller in *)
(* that caller's order.                                                  *)
RECURSIVE IsInterleaving(_, _)
IsInterleaving(buf, logs) ==
    IF \A t \in Callers : logs[t] = <<>> THEN buf = <<>>
    ELSE \E t \in Callers :
             /\ logs[t] # <<>>
             /\ IsPrefix(Head(logs[t]), buf)
             /\ IsInterleaving(SubSeq(buf, Len(Head(logs[t])) + 1, Len(buf)),
                               [logs EXCEPT ![t] = Tail(@)])

(* The callers inside the append of an update, and what each has appended. *)
Appending == {t \in Callers : callers[t].op = "update" /\ callers[t].pc = "extend"}

Appended(t) == SubSeq(callers[t].arg, 1, Len(callers[t].arg) - Len(callers[t].rest))

Returned == [t \in Callers |-> callers[t].log]

(* C14: whatever the interleaving of the callers' update calls on a state,   *)
(* at most one caller is appending, and the buffer is an interleaving of the *)
(* whole arguments of the updates that have returned, each caller's in the   *)
(* order it made them, followed by what the caller now appending has         *)
(* written so far.                                                           *)
C14_UpdatesInterleaveWhole ==
    \A h \in LiveOf({"sign", "verify"}) :
        /\ Cardinality(Appending) <= 1
        /\ LET part == IF Appending = {} THEN <<>>
                       ELSE Appended(CHOOSE t \in Appending : TRUE)
               buf == reg[h].input
           IN  /\ IsSuffix(part, buf)
               /\ IsInterleaving(SubSeq(buf, 1, Len(buf) - Len(part)), Returned)

C14_Witness ==
    \E t1, t2 \in Callers :
        /\ t1 # t2
        /\ callers[t1].pc = "extend"
        /\ Len(callers[t1].arg) = 2
        /\ Len(callers[t1].rest) = 1
        /\ callers[t2].pc = "lock"
        /\ callers[t2].op = "update"
        /\ callers[t1].log # <<>>
        /\ callers[t2].log # <<>>

(* msg is the buffer as it stood after some of the updates that have *)
(* returned by now, each whole.                                      *)
IsSnapshot(msg) ==
    \E n \in [Callers -> 0..MaxCalls] :
        /\ \A t \in Callers : n[t] <= Len(callers[t].log)
        /\ IsInterleaving(msg, [t \in Callers |-> SubSeq(callers[t].log, 1, n[t])])

(* C19: the bytes the provider is given by a sign or verify that runs while  *)
(* other callers update the same state are the buffer as it stood between    *)
(* whole updates, and the result is the provider's for those bytes.          *)
C19_SnapshotIsAtomic ==
    \A t \in Callers :
        callers[t].out.op # "none" =>
            /\ IsSnapshot(callers[t].out.msg)
            /\ (callers[t].out.op = "sign" /\ IsOk(callers[t].out.res)) =>
                   IsSuffix(callers[t].out.msg, callers[t].out.res.v)
            /\ callers[t].out.op = "verify" =>
                   (IsOk(callers[t].out.res) <=> callers[t].out.msg = <<1, 2>>)

C19_Witness ==
    \E t1, t2 \in Callers :
        /\ t1 # t2
        /\ callers[t1].pc = "unlock"
        /\ callers[t1].out.op = "sign"
        /\ IsOk(callers[t1].out.res)
        /\ callers[t1].out.msg = <<1, 2>>
        /\ callers[t2].pc = "lock"
        /\ callers[t2].op = "update"
        /\ callers[t2].log # <<>>

(* Key pair object o is whole: not dropped, its private bytes those the   *)
(* provider made for its parsed key, and the parsed key still allocated.  *)
Intact(o) ==
    /\ ~objs[o].dropped
    /\ ~AllZero(objs[o].pkcs8)
    /\ ringKeys[objs[o].ring_kp].strong > 0
    /\ objs[o].pkcs8 = provider_generate_pkcs8(ringKeys[objs[o].ring_kp].scheme,
                                               ringKeys[objs[o].ring_kp].k)

HoldsReference(t) ==
    /\ callers[t].op = "get"
    /\ callers[t].pc \in {"r_unlock", "holding"}
    /\ IsOk(callers[t].res)

(* C15: under every interleaving of register, get and close, a get that has  *)
(* returned either failed with InvalidHandle or gave a key pair that is      *)
(* whole for as long as the caller holds it, also after the handle is closed *)
(* by another caller; and every entry of the registry is a whole key pair.   *)
C15_GetSeesWholeObjects ==
    /\ \A h \in DOMAIN reg : Intact(reg[h].kp)
    /\ \A t \in Callers :
           /\ HoldsReference(t) => Intact(callers[t].obj)
           /\ (callers[t].op = "get" /\ IsErr(callers[t].res)) =>
                  KindOf(callers[t].res) = "InvalidHandle"

C15_Witness ==
    \E t1, t2 \in Callers :
        /\ t1 # t2
        /\ callers[t1].pc = "holding"
        /\ Intact(callers[t1].obj)
        /\ callers[t2].op = "close"
        /\ callers[t2].h = callers[t1].h
        /\ callers[t2].pc = "idle"
        /\ IsOk(callers[t2].res)
        /\ callers[t1].h \notin DOMAIN reg

====
